---- MODULE Spec2Model ----
(***************************************************************************)
(* A model of common-src/alloc.c of Amanda: the allocation wrappers with   *)
(* error handling (debug_alloc and friends), the caller-location registry  *)
(* (debug_caller_loc), the variadic string builder (internal_vstralloc),   *)
(* the growable table (debug_amtable_alloc) and safe_env.                  *)
(*                                                                         *)
(* C strings are sequences of one-character strings, without the NUL.      *)
(***************************************************************************)
EXTENDS Integers, Sequences, FiniteSets, TLC

VARIABLES
    root,       \* debug_caller_loc: the static list, head first; [node, str]
    ret,        \* what the last call returned
    lastCall,   \* which (file, line) the last call passed
    firstRet,   \* history: per (file, line), what the first call returned
    firstDesc,  \* history: per (file, line), the first list entry returned
    fatal,      \* errordump() was called: the process is gone
    heap,       \* the platform allocator's buffers, by address
    events,     \* the allocator and buffer events of the last operation
    result,     \* the pointer the last operation returned
    op,         \* the last operation and its arguments
    handle,     \* the caller's string variable, or its table: NULL or a buffer
    call,       \* the strings the caller is to pass: [first, argp]
    ub,         \* the last operation read or freed a buffer that is not live
    current,    \* the caller's table: the number of elements it has room for
    elsize,     \* the caller's table: the size of an element
    grown,      \* history: the last request that made the table grow
    proc        \* the process: its ids, its environment, the build's options

locVars == <<root, ret, lastCall, firstRet, firstDesc>>
memVars == <<heap, events, result, op, handle, call, ub>>
extVars == <<current, elsize, grown, proc>>
vars == <<root, ret, lastCall, firstRet, firstDesc, fatal, heap, events, result, op, handle, call, ub,
          current, elsize, grown, proc>>

NULL == 0

Min(a, b) == IF a < b THEN a ELSE b
Max(a, b) == IF a > b THEN a ELSE b

(***************************************************************************)
(* libc string functions                                                   *)
(***************************************************************************)

\* A string of n copies of the character c.
Rep(c, n) == [i \in 1..n |-> c]

\* strrchr(s, c): the index of the last occurrence of character c in s,
\* 0 (a null pointer) if there is none.
strrchr(s, c) ==
    LET at == {i \in 1..Len(s) : s[i] = c}
    IN IF at = {} THEN 0 ELSE CHOOSE i \in at : \A j \in at : j <= i

\* strncmp(a, b, n) == 0: the first n characters agree, a NUL ending the
\* comparison early when both strings end there.
strnEq(a, b, n) ==
    \A i \in 1..n :
        \/ (i <= Len(a) /\ i <= Len(b) /\ a[i] = b[i])
        \/ (\E j \in 1..i : j = Len(a) + 1 /\ j = Len(b) + 1
                /\ \A k \in 1..(j - 1) : a[k] = b[k])

Digit(d) == <<"0", "1", "2", "3", "4", "5", "6", "7", "8", "9">>[d + 1]

\* printf("%d") of a non-negative int.
RECURSIVE utoa(_)
utoa(n) == IF n < 10 THEN <<Digit(n)>> ELSE utoa(n \div 10) \o <<Digit(n % 10)>>

\* printf("%d")
itoa(n) == IF n < 0 THEN <<"-">> \o utoa(-n) ELSE utoa(n)

\* snprintf(buf, size, ...) of the rendered text s: what the buffer holds.
snprintf(s, size) == SubSeq(s, 1, Min(Len(s), size - 1))

(***************************************************************************)
(* debug_caller_loc                                                        *)
(***************************************************************************)

LOC_SIZE == 256

\* "??", the string literal returned when the registry cannot allocate.
Sentinel == [node |-> NULL, str |-> <<"?", "?">>]

\* lines 81-84: the last path element, "@", the line, cut to the buffer.
LocString(file, line) ==
    LET p == strrchr(file, "/")
        base == IF p # 0 THEN SubSeq(file, p + 1, Len(file)) ELSE file
    IN snprintf(base \o <<"@">> \o itoa(line), LOC_SIZE)

\* Mutant of ListFind: only the head of the list is compared.
ListFindHeadOnly(rt, loc, i) ==
    IF Len(rt) >= 1 /\ rt[1].str = loc THEN 1 ELSE 0

\* Index of the first entry of list rt whose string is loc, 0 if none.
RECURSIVE ListFind(_, _, _)
ListFind(rt, loc, i) ==
    IF i > Len(rt) THEN 0
    ELSE IF rt[i].str = loc THEN i
    ELSE ListFind(rt, loc, i + 1)

\* LIST_REMOVE(ls, le) of the i-th entry.
ListRemove(rt, i) == SubSeq(rt, 1, i - 1) \o SubSeq(rt, i + 1, Len(rt))

\* LIST_INSERT_HEAD(&root, ls, le)
ListInsertHead(rt, ls) == <<ls>> \o rt

\* Mutant of Promote: a repeat is returned where it stands.
PromoteKeepsPlace(rt, i) == rt

\* lines 86-98: a repeat not at the head is unlinked and moved to the front.
Promote(rt, i) ==
    IF i # 1 THEN ListInsertHead(ListRemove(rt, i), rt[i]) ELSE rt

\* A node address no entry of the list has (entries are never freed).
FreshNode(rt) == Len(rt) + 1

\* debug_caller_loc(file, line) on list rt; nodeOK and strOK say whether
\* the two malloc calls of lines 103 and 106 succeed.  The list after the
\* call and the string returned.
DebugCallerLoc(rt, file, line, nodeOK, strOK) ==
    LET loc == LocString(file, line)
        i == ListFind(rt, loc, 1)
    IN IF i # 0
       THEN [root |-> Promote(rt, i), ret |-> rt[i]]
       ELSE IF ~nodeOK THEN [root |-> rt, ret |-> Sentinel]
       ELSE IF ~strOK THEN [root |-> rt, ret |-> Sentinel]
       ELSE LET ls == [node |-> FreshNode(rt), str |-> loc]
            IN [root |-> ListInsertHead(rt, ls), ret |-> ls]

(***************************************************************************)
(* The platform allocator and the process, as a record m the functions of  *)
(* alloc.c transform:                                                      *)
(*   heap   address -> buffer          root  the caller-location list      *)
(*   ev     events so far              res   the value just returned       *)
(*   fatal  errordump() was called     ub    undefined behaviour happened  *)
(*   ao     the addresses the coming malloc calls return (NULL: failure)   *)
(*   lf     how many of the coming registry insertions fail to allocate    *)
(*   fs     whether such a failure is of the string (else of the node)     *)
(*   bad    the choices ao do not fit the heap: not an execution           *)
(***************************************************************************)

MaxAddr == 2

Addrs == 1..MaxAddr

NoBuf == [live |-> FALSE, size |-> 0, init |-> FALSE, str |-> <<>>]

EmptyHeap == [a \in Addrs |-> NoBuf]

Machine(hp, rt, ao, lf, fs) ==
    [heap |-> hp, root |-> rt, ev |-> <<>>, res |-> NULL, fatal |-> FALSE,
     ub |-> FALSE, ao |-> ao, lf |-> lf, fs |-> fs, bad |-> FALSE]

\* f applied to the value of v, which is computed once: the result of one
\* statement handed to the statements after it.
Then(v, f(_)) == CHOOSE r \in {f(w) : w \in {v}} : TRUE

\* m with the value returned set to r.
Return(m, r) == [m EXCEPT !.res = r]

\* malloc(n): NULL, or a buffer of n bytes at an address not in use.
Malloc(m, n) ==
    IF m.ao = <<>> THEN [m EXCEPT !.bad = TRUE, !.res = NULL]
    ELSE LET a == Head(m.ao)
         IN IF a = NULL
            THEN [m EXCEPT !.ao = Tail(m.ao), !.res = NULL,
                           !.ev = Append(m.ev, [e |-> "malloc", a |-> NULL, n |-> n])]
            ELSE IF m.heap[a].live
            THEN [m EXCEPT !.bad = TRUE, !.res = NULL]
            ELSE [m EXCEPT !.ao = Tail(m.ao), !.res = a,
                           !.heap[a] = [live |-> TRUE, size |-> n, init |-> FALSE, str |-> <<>>],
                           !.ev = Append(m.ev, [e |-> "malloc", a |-> a, n |-> n])]

\* free(a) of a non-null a: freeing what is not live is undefined.
Free(m, a) ==
    [m EXCEPT !.heap[a] = NoBuf,
              !.ub = m.ub \/ ~m.heap[a].live,
              !.ev = Append(m.ev, [e |-> "free", a |-> a, n |-> 0])]

\* The string at address a is read (strlen, strcpy, memcpy from it).
ReadBuf(m, a) ==
    [m EXCEPT !.ub = m.ub \/ ~m.heap[a].live \/ ~m.heap[a].init,
              !.ev = Append(m.ev, [e |-> "read", a |-> a, n |-> 0])]

\* The string s and its NUL are written to the buffer at a.
WriteBuf(m, a, s) ==
    [m EXCEPT !.heap[a].init = TRUE,
              !.heap[a].str = s,
              !.ub = m.ub \/ ~m.heap[a].live \/ Len(s) + 1 > m.heap[a].size,
              !.ev = Append(m.ev, [e |-> "write", a |-> a, n |-> Len(s) + 1])]

\* errordump(): the message is reported and the process ends.
Errordump(m, msg) ==
    [m EXCEPT !.fatal = TRUE, !.res = NULL,
              !.ev = Append(m.ev, [e |-> "errordump", a |-> NULL, n |-> 0, msg |-> msg])]

\* debug_amfree(file, line, ptr): ptr is freed unless it is NULL.
debug_amfree(m, ptr) == IF ptr # NULL THEN Free(m, ptr) ELSE m

\* malloc_enter(debug_caller_loc(file, line)) and malloc_leave(...): the
\* registry lookup, with its allocations failing as m.lf and m.fs say.
EnterLeave(m, file, line) ==
    LET miss == ListFind(m.root, LocString(file, line), 1) = 0
        ok == m.lf = 0
    IN Then(DebugCallerLoc(m.root, file, line, ok \/ m.fs, ok), LAMBDA r :
       [m EXCEPT !.root = r.root,
                 !.lf = IF miss /\ ~ok THEN m.lf - 1 ELSE m.lf])

\* Mutant of debug_alloc: the result of malloc is returned unchecked.
debug_alloc_unchecked(m, file, line, size) ==
    Then(EnterLeave(m, file, line), LAMBDA m1 :
    Then(Malloc(m1, Max(size, 1)), LAMBDA m2 :
    Then(EnterLeave(m2, file, line), LAMBDA m3 :
    Return(m3, m2.res))))

\* Mutant of debug_alloc: a request of no bytes is passed on as it is.
debug_alloc_nomax(m, file, line, size) ==
    Then(EnterLeave(m, file, line), LAMBDA m1 :
    Then(Malloc(m1, size), LAMBDA m2 :
    IF m2.res = NULL
    THEN Errordump(m2, "memory allocation failed")
    ELSE Then(EnterLeave(m2, file, line), LAMBDA m3 :
         Return(m3, m2.res))))

\* debug_alloc(file, line, size), lines 121-140
debug_alloc(m, file, line, size) ==
    Then(EnterLeave(m, file, line), LAMBDA m1 :
    Then(Malloc(m1, Max(size, 1)), LAMBDA m2 :
    IF m2.res = NULL
    THEN Errordump(m2, "memory allocation failed")
    ELSE Then(EnterLeave(m2, file, line), LAMBDA m3 :
         Return(m3, m2.res))))

\* Mutant of debug_newalloc: the old buffer is freed first, as the comment
\* of line 144 has it.
debug_newalloc_freefirst(m, file, line, old, size) ==
    Then(EnterLeave(m, file, line), LAMBDA m1 :
    Then(debug_amfree(m1, old), LAMBDA m2 :
    Then(debug_alloc(m2, file, line, size), LAMBDA m3 :
    IF m3.fatal THEN m3
    ELSE Then(EnterLeave(m3, file, line), LAMBDA m4 :
         Return(m4, m3.res)))))

\* debug_newalloc(file, line, old, size), lines 146-160
debug_newalloc(m, file, line, old, size) ==
    Then(EnterLeave(m, file, line), LAMBDA m1 :
    Then(debug_alloc(m1, file, line, size), LAMBDA m2 :
    IF m2.fatal THEN m2
    ELSE Then(debug_amfree(m2, old), LAMBDA m3 :
         Then(EnterLeave(m3, file, line), LAMBDA m4 :
         Return(m4, m2.res)))))

\* A char * argument: a string constant of the caller or a buffer.
Lit(s) == [lit |-> s]
Ptr(a) == [addr |-> a]
IsPtr(p) == DOMAIN p = {"addr"}

\* What strlen, strcpy and memcpy read at p.
StrAt(m, p) == IF IsPtr(p) THEN m.heap[p.addr].str ELSE p.lit

\* p is read: an event when p is a buffer.
ReadStr(m, p) == IF IsPtr(p) THEN ReadBuf(m, p.addr) ELSE m

\* debug_stralloc(file, line, str), lines 167-180
debug_stralloc(m, file, line, str) ==
    Then(EnterLeave(m, file, line), LAMBDA m1 :
    Then(ReadStr(m1, str), LAMBDA m2 :
    Then(debug_alloc(m2, file, line, Len(StrAt(m2, str)) + 1), LAMBDA m3 :
    IF m3.fatal THEN m3
    ELSE Then(ReadStr(m3, str), LAMBDA m4 :
         Then(WriteBuf(m4, m3.res, StrAt(m4, str)), LAMBDA m5 :
         Then(EnterLeave(m5, file, line), LAMBDA m6 :
         Return(m6, m3.res)))))))

\* debug_newstralloc(file, line, oldstr, newstr), lines 273-287
debug_newstralloc(m, file, line, oldstr, newstr) ==
    Then(EnterLeave(m, file, line), LAMBDA m1 :
    Then(debug_stralloc(m1, file, line, newstr), LAMBDA m2 :
    IF m2.fatal THEN m2
    ELSE Then(debug_amfree(m2, oldstr), LAMBDA m3 :
         Then(EnterLeave(m3, file, line), LAMBDA m4 :
         Return(m4, m2.res)))))

(***************************************************************************)
(* internal_vstralloc and the string builders on it                        *)
(***************************************************************************)

MIN_ALLOC == 64

MAX_VSTRALLOC_ARGS == 32

\* A null char *.
NullStr == [null |-> TRUE]

\* Mutant of ScanArg: the bound is tested with > instead of >=.
ScanArgOffByOne(sc, next) ==
    IF sc.over THEN sc
    ELSE IF Len(next) = 0 THEN sc
    ELSE IF sc.a > MAX_VSTRALLOC_ARGS THEN [sc EXCEPT !.over = TRUE]
    ELSE [sc EXCEPT !.a = sc.a + 1, !.arg = Append(sc.arg, next),
                    !.total_len = sc.total_len + Len(next)]

\* One turn of the loop of lines 218-233 on the argument next: sc holds a,
\* arg[0..a-1], total_len and whether errordump was reached (over).
ScanArg(sc, next) ==
    IF sc.over THEN sc
    ELSE IF Len(next) = 0 THEN sc
    ELSE IF sc.a >= MAX_VSTRALLOC_ARGS THEN [sc EXCEPT !.over = TRUE]
    ELSE [sc EXCEPT !.a = sc.a + 1, !.arg = Append(sc.arg, next),
                    !.total_len = sc.total_len + Len(next)]

\* Mutant of ScanArgs: an empty string ends the argument list.
RECURSIVE ScanArgsEmptyEnds(_, _, _)
ScanArgsEmptyEnds(sc, argp, i) ==
    IF i > Len(argp) \/ Len(argp[i]) = 0 THEN sc
    ELSE Then(ScanArg(sc, argp[i]), LAMBDA sc2 : ScanArgsEmptyEnds(sc2, argp, i + 1))

\* The loop of lines 212-233 from argument i of argp on.
RECURSIVE ScanArgs(_, _, _)
ScanArgs(sc, argp, i) ==
    IF i > Len(argp) THEN sc
    ELSE Then(ScanArg(sc, argp[i]), LAMBDA sc2 : ScanArgs(sc2, argp, i + 1))

\* The copy loop of lines 237-242: arg[b..a-1] one after the other.
RECURSIVE CopyArgs(_, _)
CopyArgs(arg, b) ==
    IF b > Len(arg) THEN <<>> ELSE arg[b] \o CopyArgs(arg, b + 1)

\* internal_vstralloc(file, line, str, argp), lines 192-245; argp is the
\* list of the strings before the terminating null.
internal_vstralloc(m, file, line, str, argp) ==
    IF str = NullStr THEN Errordump(m, "internal_vstralloc: str is NULL")
    ELSE
    Then(ReadStr(m, str), LAMBDA m1 :
    Then(StrAt(m1, str), LAMBDA s0 :
    Then(ScanArgs([a |-> 1, arg |-> <<s0>>, total_len |-> Len(s0),
                   over |-> FALSE], argp, 1), LAMBDA sc :
    IF sc.over THEN Errordump(m1, "more than 32 args to vstralloc")
    ELSE Then(debug_alloc(m1, file, line, sc.total_len + 1), LAMBDA m2 :
         IF m2.fatal THEN m2
         ELSE Then(ReadStr(m2, str), LAMBDA m3 :
              Then(WriteBuf(m3, m2.res, CopyArgs(sc.arg, 1)), LAMBDA m4 :
              Return(m4, m2.res)))))))

\* debug_vstralloc(file, line, str, ...), lines 251-267
debug_vstralloc(m, file, line, str, argp) ==
    Then(EnterLeave(m, file, line), LAMBDA m1 :
    Then(internal_vstralloc(m1, file, line, str, argp), LAMBDA m2 :
    IF m2.fatal THEN m2
    ELSE Then(EnterLeave(m2, file, line), LAMBDA m3 :
         Return(m3, m2.res))))

\* debug_newvstralloc(file, line, oldstr, newstr, ...), lines 293-311
debug_newvstralloc(m, file, line, oldstr, newstr, argp) ==
    Then(EnterLeave(m, file, line), LAMBDA m1 :
    Then(internal_vstralloc(m1, file, line, newstr, argp), LAMBDA m2 :
    IF m2.fatal THEN m2
    ELSE Then(debug_amfree(m2, oldstr), LAMBDA m3 :
         Then(EnterLeave(m3, file, line), LAMBDA m4 :
         Return(m4, m2.res)))))

\* vsnprintf(buf, size, fmt, ...) into the buffer at a: text is what the
\* format and its arguments render to, a buffer when the format prints one.
Vsnprintf(m, a, size, text) ==
    Then(ReadStr(m, text), LAMBDA m1 :
    WriteBuf(m1, a, snprintf(StrAt(m1, text), size)))

\* The body shared by debug_vstrallocf (lines 330-345) and
\* debug_newvstrallocf (lines 370-385).
Format(m, file, line, text) ==
    Then(debug_alloc(m, file, line, MIN_ALLOC), LAMBDA m1 :
    IF m1.fatal THEN m1
    ELSE
    Then(Vsnprintf(m1, m1.res, MIN_ALLOC, text), LAMBDA m2 :
    Then(Len(StrAt(m1, text)), LAMBDA size :
    IF size >= MIN_ALLOC
    THEN Then(debug_amfree(m2, m1.res), LAMBDA m3 :
         Then(debug_alloc(m3, file, line, size + 1), LAMBDA m4 :
         IF m4.fatal THEN m4
         ELSE Then(Vsnprintf(m4, m4.res, size + 1, text), LAMBDA m5 :
              Return(m5, m4.res))))
    ELSE Return(m2, m1.res))))

\* debug_vstrallocf(file, line, fmt, ...), lines 317-349
debug_vstrallocf(m, file, line, text) ==
    Then(EnterLeave(m, file, line), LAMBDA m1 :
    Then(Format(m1, file, line, text), LAMBDA m2 :
    IF m2.fatal THEN m2
    ELSE Then(EnterLeave(m2, file, line), LAMBDA m3 :
         Return(m3, m2.res))))

\* debug_newvstrallocf(file, line, oldstr, fmt, ...), lines 355-389
debug_newvstrallocf(m, file, line, oldstr, text) ==
    Then(EnterLeave(m, file, line), LAMBDA m1 :
    Then(Format(m1, file, line, text), LAMBDA m2 :
    IF m2.fatal THEN m2
    ELSE Then(debug_amfree(m2, oldstr), LAMBDA m3 :
         Then(EnterLeave(m3, file, line), LAMBDA m4 :
         Return(m4, m2.res)))))

\* The string debug_vstrextend passes on: "" for a null *oldstr.
ExtendFrom(oldstr) == IF oldstr = NULL THEN Lit(<<>>) ELSE Ptr(oldstr)

\* Mutant of debug_vstrextend: the old string is freed before it is copied.
debug_vstrextend_freefirst(m, file, line, oldstr, argp) ==
    Then(debug_amfree(m, oldstr), LAMBDA m1 :
    internal_vstralloc(m1, file, line, ExtendFrom(oldstr), argp))

\* Mutant of debug_vstrextend: the old string is never freed.
debug_vstrextend_leaks(m, file, line, oldstr, argp) ==
    internal_vstralloc(m, file, line, ExtendFrom(oldstr), argp)

\* debug_vstrextend(file, line, oldstr, ...), lines 393-412; oldstr is the
\* value of *oldstr at the call (keep), m.res its value at the return.
debug_vstrextend(m, file, line, oldstr, argp) ==
    Then(internal_vstralloc(m, file, line, ExtendFrom(oldstr), argp), LAMBDA m1 :
    IF m1.fatal THEN m1
    ELSE Then(debug_amfree(m1, oldstr), LAMBDA m2 :
         Return(m2, m1.res)))

(***************************************************************************)
(* The registry on its own: any sequence of lookups.                       *)
(***************************************************************************)

LongLen == 260

\* A file name longer than the loc buffer, ending in character c.
LongName(c) == Rep("x", LongLen - 1) \o <<c>>

\* The (file, line) pairs the callers pass: two paths to one file, another
\* file, and two long names that differ only past the loc buffer's end.
CallArgs ==
    << <<<<"a", ".", "c">>, 7>>,
       <<<<"/", "s", "r", "c", "/", "a", ".", "c">>, 7>>,
       <<<<"l", "i", "b", "/", "b", ".", "c">>, 12>>,
       <<LongName("y"), 7>>,
       <<LongName("z"), 7>> >>

Calls == 1..Len(CallArgs)

\* No call has been made yet.
NoCall == NULL

NoRet == [node |-> -1, str |-> <<>>]

NoOp == [name |-> "none"]

NoArgs == [first |-> <<>>, argp |-> <<>>]

NoGrowth == [count |-> -1, bump |-> 0]

NoProc == [environ |-> <<>>]

\* There is no table, and safe_env is not called.
ExtIdle ==
    /\ current = 0
    /\ elsize = 1
    /\ grown = NoGrowth
    /\ proc = NoProc

\* The allocation wrappers have not been called.
MemIdle ==
    /\ heap = EmptyHeap
    /\ events = <<>>
    /\ result = NULL
    /\ op = NoOp
    /\ handle = NULL
    /\ call = NoArgs
    /\ ub = FALSE

InitLoc ==
    /\ root = <<>>
    /\ ret = NoRet
    /\ lastCall = NoCall
    /\ firstRet = [c \in Calls |-> NoRet]
    /\ firstDesc = [c \in Calls |-> NoRet]
    /\ fatal = FALSE
    /\ MemIdle
    /\ ExtIdle

CallerLoc(c, nodeOK, strOK) ==
    \E r \in {DebugCallerLoc(root, CallArgs[c][1], CallArgs[c][2], nodeOK, strOK)} :
       /\ root' = r.root
       /\ ret' = r.ret
       /\ lastCall' = c
       /\ firstRet' = IF firstRet[c] = NoRet
                      THEN [firstRet EXCEPT ![c] = r.ret]
                      ELSE firstRet
       /\ firstDesc' = IF firstDesc[c] = NoRet /\ r.ret.node # NULL
                       THEN [firstDesc EXCEPT ![c] = r.ret]
                       ELSE firstDesc
       /\ UNCHANGED <<fatal, memVars, extVars>>

NextLoc == \E c \in Calls, nodeOK, strOK \in BOOLEAN : CallerLoc(c, nodeOK, strOK)

SpecLoc == InitLoc /\ [][NextLoc]_vars

(***************************************************************************)
(* A caller of the allocation wrappers: it allocates buffers, keeps one    *)
(* string in the variable handle, which it replaces and extends, and frees *)
(* what it owns.                                                           *)
(***************************************************************************)

MaxSize == 2
MaxArgs == 2
MaxStrLen == 3
MaxLocFails == 2

\* The call site of the string operations, and those of the allocations.
Site == 1
AllocSites == {1, 3}
File(c) == CallArgs[c][1]
Line(c) == CallArgs[c][2]

\* The string constants the caller passes for a new string.
MemStrings == {<<>>, <<"a">>, <<"c">>}

\* The variadic argument lists the caller passes: none, two strings, one,
\* and an empty string before another.
MemArgs == {<<>>, <<<<"a">>, <<"b">>>>, <<<<"c">>>>, <<<<>>, <<"c">>>>}

\* The argument lists of at most n strings of S.
ArgLists(S, n) == UNION {[1..k -> S] : k \in 0..n}

\* What a format renders to: short, one less than MIN_ALLOC, MIN_ALLOC.
Texts == {<<"4", "2">>, Rep("x", MIN_ALLOC - 1), Rep("x", MIN_ALLOC)}

\* The outcomes of the coming malloc calls, at most n of them.
AddrChoices(n) == UNION {[1..k -> {NULL} \cup Addrs] : k \in 1..n}

\* The outcomes of the registry's allocations during a call from site c:
\* how many insertions fail, and whether at the string or at the node.
LocChoices(c) ==
    IF ListFind(root, LocString(File(c), Line(c)), 1) # 0
    THEN {<<0, FALSE>>}
    ELSE {<<0, FALSE>>} \cup ((1..MaxLocFails) \X BOOLEAN)

\* The strings args[i], args[i+1], ... one after the other.
RECURSIVE ConcatFrom(_, _)
ConcatFrom(args, i) ==
    IF i > Len(args) THEN <<>> ELSE args[i] \o ConcatFrom(args, i + 1)

\* The argument strings one after the other.
Concat(args) == ConcatFrom(args, 1)

InitMem ==
    /\ root = <<>>
    /\ ret = NoRet
    /\ lastCall = NoCall
    /\ firstRet = [c \in Calls |-> NoRet]
    /\ firstDesc = [c \in Calls |-> NoRet]
    /\ fatal = FALSE
    /\ MemIdle
    /\ ExtIdle

\* The process after the call that left m; every choice of m.ao was used.
Left(m) ==
    /\ ~m.bad
    /\ m.ao = <<>>
    /\ heap' = m.heap
    /\ root' = m.root
    /\ events' = m.ev
    /\ result' = m.res
    /\ fatal' = m.fatal
    /\ ub' = m.ub
    /\ UNCHANGED <<ret, lastCall, firstRet, firstDesc, call>>

\* The same after a call that is not about the table or the environment.
Ran(m) == Left(m) /\ UNCHANGED extVars

\* The string a char * of the caller holds: none when it is NULL.
Held(p) == IF p = NULL THEN <<>> ELSE heap[p].str

\* The handle is NULL or points to a string.
HandleIsString == IF handle = NULL THEN TRUE ELSE heap[handle].init

\* The string pointers the caller can pass: its constants and its handle.
Sources == {Lit(s) : s \in MemStrings} \cup
           (IF handle # NULL /\ heap[handle].init THEN {Ptr(handle)} ELSE {})

\* What the caller passed: the operation, the old pointer, the size asked
\* for and the text the new buffer is to hold.
Op(name, old, size, text) ==
    [name |-> name, old |-> old, size |-> size, text |-> text]

\* The process as a call with the choices ao and lc finds it.
Now(ao, lc) == Machine(heap, root, ao, lc[1], lc[2])

\* The text of the strings passed, str first: what the caller expects.
Passed(str, argp) ==
    IF str = NullStr THEN <<>>
    ELSE Concat(<<StrAt(Now(<<>>, <<0, FALSE>>), str)>> \o argp)

Alloc(c, size, ao, lc) ==
    /\ ~fatal
    /\ \E m \in {debug_alloc(Now(ao, lc), File(c), Line(c), size)} : Ran(m)
    /\ op' = Op("alloc", NULL, size, <<>>)
    /\ UNCHANGED handle

NewAlloc(c, size, ao, lc) ==
    /\ ~fatal
    /\ \E m \in {debug_newalloc(Now(ao, lc), File(c), Line(c), handle, size)} :
          /\ Ran(m)
          /\ handle' = IF m.fatal THEN handle ELSE m.res
    /\ op' = Op("newalloc", handle, size, <<>>)

NewStralloc(c, newstr, ao, lc) ==
    /\ ~fatal
    /\ \E m \in {debug_newstralloc(Now(ao, lc), File(c), Line(c), handle, newstr)} :
          /\ Ran(m)
          /\ handle' = IF m.fatal THEN handle ELSE m.res
    /\ op' = Op("newstralloc", handle, 0, StrAt(Now(ao, lc), newstr))

NewVstralloc(c, newstr, argp, ao, lc) ==
    /\ ~fatal
    /\ op' = Op("newvstralloc", handle, 0, Passed(newstr, argp))
    /\ \E m \in {debug_newvstralloc(Now(ao, lc), File(c), Line(c), handle, newstr, argp)} :
          /\ Ran(m)
          /\ handle' = IF m.fatal THEN handle ELSE m.res

NewVstrallocf(c, text, ao, lc) ==
    /\ ~fatal
    /\ \E m \in {debug_newvstrallocf(Now(ao, lc), File(c), Line(c), handle, text)} :
          /\ Ran(m)
          /\ handle' = IF m.fatal THEN handle ELSE m.res
    /\ op' = Op("newvstrallocf", handle, 0, StrAt(Now(ao, lc), text))

Vstrextend(c, argp, ao, lc) ==
    /\ ~fatal
    /\ HandleIsString
    /\ op' = Op("vstrextend", handle, 0, Passed(ExtendFrom(handle), argp))
    /\ \E m \in {debug_vstrextend(Now(ao, lc), File(c), Line(c), handle, argp)} :
          /\ Ran(m)
          /\ handle' = IF m.fatal THEN handle ELSE m.res

\* The caller's amfree(p) of a buffer it owns; amfree(handle) nulls it.
Amfree(a) ==
    /\ ~fatal
    /\ heap[a].live
    /\ \E m \in {debug_amfree(Now(<<>>, <<0, FALSE>>), a)} : Ran(m)
    /\ op' = Op("amfree", a, 0, <<>>)
    /\ handle' = IF a = handle THEN NULL ELSE handle

\* A caller that allocates buffers and frees them.
NextAlloc ==
    \/ \E c \in AllocSites : \E size \in 0..MaxSize, ao \in AddrChoices(1),
          lc \in LocChoices(c) :
          Alloc(c, size, ao, lc)
    \/ \E a \in Addrs : Amfree(a)

SpecAlloc == InitMem /\ [][NextAlloc]_vars

\* A caller that replaces, extends and frees the string of its handle.
NextMem ==
    \/ \E size \in 0..MaxSize, ao \in AddrChoices(1), lc \in LocChoices(Site) :
          NewAlloc(Site, size, ao, lc)
    \/ \E newstr \in Sources, ao \in AddrChoices(1), lc \in LocChoices(Site) :
          NewStralloc(Site, newstr, ao, lc)
    \/ \E newstr \in Sources, argp \in MemArgs,
          ao \in AddrChoices(1), lc \in LocChoices(Site) :
          /\ Len(StrAt(Now(ao, lc), newstr)) + Len(Concat(argp)) <= MaxStrLen
          /\ NewVstralloc(Site, newstr, argp, ao, lc)
    \/ \E text \in {Lit(t) : t \in Texts} \cup Sources,
          ao \in AddrChoices(2), lc \in LocChoices(Site) :
          NewVstrallocf(Site, text, ao, lc)
    \/ \E argp \in MemArgs,
          ao \in AddrChoices(1), lc \in LocChoices(Site) :
          /\ Len(Held(handle)) + Len(Concat(argp)) <= MaxStrLen
          /\ Vstrextend(Site, argp, ao, lc)
    \/ \E a \in Addrs : Amfree(a)

SpecMem == InitMem /\ [][NextMem]_vars

(***************************************************************************)
(* One call of a string builder on each list of arguments: the short       *)
(* lists, and lists around MAX_VSTRALLOC_ARGS strings long.                *)
(***************************************************************************)

MaxExtra == 1
MaxEmpty == 1

ArgStrings == {<<>>, <<"a", "b">>, <<"c", "d">>, <<"e", "f">>}

\* The first strings: a null pointer, "" and "ab".
Firsts == {NullStr, <<>>, <<"a", "b">>}

\* The sets of at most k of the places 1..n.
RECURSIVE PlacesUpTo(_, _)
PlacesUpTo(n, k) ==
    IF k = 0 THEN {{}}
    ELSE LET P == PlacesUpTo(n, k - 1)
         IN P \cup {S \cup {i} : S \in P, i \in 1..n}

\* n one-character strings, the i-th the last digit of i, those at the
\* places of E empty.
LongList(n, E) == [i \in 1..n |-> IF i \in E THEN <<>> ELSE <<Digit(i % 10)>>]

LongLists ==
    UNION { {LongList(n, E) : E \in PlacesUpTo(n, MaxEmpty)} :
            n \in (MAX_VSTRALLOC_ARGS - 2)..(MAX_VSTRALLOC_ARGS + MaxExtra) }

InitArgs ==
    /\ root = <<>>
    /\ ret = NoRet
    /\ lastCall = NoCall
    /\ firstRet = [c \in Calls |-> NoRet]
    /\ firstDesc = [c \in Calls |-> NoRet]
    /\ fatal = FALSE
    /\ events = <<>>
    /\ result = NULL
    /\ op = NoOp
    /\ ub = FALSE
    /\ ExtIdle
    /\ \E first \in Firsts, argp \in ArgLists(ArgStrings, MaxArgs) \cup LongLists :
          call = [first |-> first, argp |-> argp]
    \* the first string is a constant, or the string the handle holds
    /\ \/ handle = NULL /\ heap = EmptyHeap
       \/ /\ call.first # NullStr
          /\ handle = 1
          /\ heap = [EmptyHeap EXCEPT ![1] = [live |-> TRUE, size |-> Len(call.first) + 1,
                                             init |-> TRUE, str |-> call.first]]

\* The char * the caller passes first.
FirstStr ==
    IF call.first = NullStr THEN NullStr
    ELSE IF handle # NULL THEN Ptr(handle) ELSE Lit(call.first)

Vstralloc(c, ao, lc) ==
    /\ ~fatal
    /\ op = NoOp
    /\ \E m \in {debug_vstralloc(Now(ao, lc), File(c), Line(c), FirstStr, call.argp)} :
          Ran(m)
    /\ op' = Op("vstralloc", NULL, 0, Passed(FirstStr, call.argp))
    /\ UNCHANGED handle

NextArgs ==
    \/ \E ao \in AddrChoices(1), lc \in LocChoices(Site) :
          Vstralloc(Site, ao, lc)
    \/ \E ao \in AddrChoices(1), lc \in LocChoices(Site) :
          /\ op = NoOp
          /\ NewVstralloc(Site, FirstStr, call.argp, ao, lc)
    \/ \E ao \in AddrChoices(1), lc \in LocChoices(Site) :
          /\ op = NoOp
          /\ call.first # NullStr
          /\ handle = NULL => call.first = <<>>
          /\ Vstrextend(Site, call.argp, ao, lc)

SpecArgs == InitArgs /\ [][NextArgs]_vars

(***************************************************************************)
(* The growable table: debug_amtable_alloc and debug_amtable_free.  A      *)
(* table is a buffer of bytes, element i at the bytes i * elsize + 1 ..    *)
(* (i + 1) * elsize of it.                                                 *)
(***************************************************************************)

\* A byte malloc left as it found it.
Undef == -1

\* What the caller's init_func writes to every byte of an element.
InitByte == 255

\* The bytes of the buffer at a, all size of them.
Bytes(m, a) ==
    [i \in 1..m.heap[a].size |->
        IF i <= Len(m.heap[a].str) THEN m.heap[a].str[i] ELSE Undef]

\* memcpy(dst, src, n)
Memcpy(m, dst, src, n) ==
    [m EXCEPT !.heap[dst].str =
                  [i \in 1..m.heap[dst].size |->
                      IF i <= Min(n, m.heap[src].size)
                      THEN Bytes(m, src)[i] ELSE Bytes(m, dst)[i]],
              !.ub = m.ub \/ ~m.heap[dst].live \/ ~m.heap[src].live
                          \/ n > m.heap[dst].size \/ n > m.heap[src].size,
              !.ev = Append(m.ev, [e |-> "memcpy", a |-> dst, n |-> n])]

\* Mutant of Memset: nothing is written.
MemsetNothing(m, a, off, c, n) ==
    [m EXCEPT !.ev = Append(m.ev, [e |-> "memset", a |-> a, n |-> n,
                                   snap |-> Bytes(m, a)])]

\* memset(a + off, c, n); the event keeps the bytes of the buffer after it.
Memset(m, a, off, c, n) ==
    LET new == [i \in 1..m.heap[a].size |->
                   IF off < i /\ i <= off + n THEN c ELSE Bytes(m, a)[i]]
    IN [m EXCEPT !.heap[a].str = new,
                 !.ub = m.ub \/ ~m.heap[a].live \/ off + n > m.heap[a].size,
                 !.ev = Append(m.ev, [e |-> "memset", a |-> a, n |-> n,
                                      snap |-> new])]

\* (*init_func)(table + i * elsize) of the caller
init_func(m, a, i, size) ==
    [m EXCEPT !.heap[a].str =
                  [k \in 1..m.heap[a].size |->
                      IF i * size < k /\ k <= (i + 1) * size
                      THEN InitByte ELSE Bytes(m, a)[k]],
              !.ev = Append(m.ev, [e |-> "init", a |-> a, n |-> i])]

\* for (i = from; i < to; i++) (*init_func)(table + i * elsize), lines 532-534
RECURSIVE InitElems(_, _, _, _, _)
InitElems(m, a, from, to, size) ==
    IF from >= to THEN m
    ELSE Then(init_func(m, a, from, size), LAMBDA m1 :
         InitElems(m1, a, from + 1, to, size))

\* Mutant of TableCountNew: the smallest multiple of bump that is at least
\* count.
TableCountCeil(count, bump) == ((count + bump - 1) \div bump) * bump

\* table_count_new, line 521
TableCountNew(count, bump) == ((count + bump) \div bump) * bump

\* debug_amtable_alloc(file, line, &table, &cur, size, count, bump,
\* init_func), lines 505-539; init says whether init_func is not NULL.  What
\* it leaves in table and cur is returned.
debug_amtable_alloc(m, file, line, table, cur, size, count, bump, init) ==
    IF count >= cur
    THEN Then(TableCountNew(count, bump), LAMBDA table_count_new :
         Then(debug_alloc(m, file, line, table_count_new * size), LAMBDA m1 :
         IF m1.fatal THEN m1
         ELSE Then(IF table # NULL
                   THEN Then(Memcpy(m1, m1.res, table, cur * size), LAMBDA m0 :
                        Free(m0, table))
                   ELSE m1, LAMBDA m2 :
              Then(Memset(m2, m1.res, cur * size, 0,
                          (table_count_new - cur) * size), LAMBDA m3 :
              Then(IF init
                   THEN InitElems(m3, m1.res, cur, table_count_new, size)
                   ELSE m3, LAMBDA m4 :
              Return(m4, [table |-> m1.res, current |-> table_count_new]))))))
    ELSE Return(m, [table |-> table, current |-> cur])

\* debug_amtable_free(file, line, &table, &cur), lines 550-559; amfree
\* leaves NULL in table.
debug_amtable_free(m, table, cur) ==
    Then(debug_amfree(m, table), LAMBDA m1 :
    Return(m1, [table |-> NULL, current |-> 0]))

MaxCount == 2
MaxBump == 2
MaxElsize == 2

InitTable ==
    /\ root = <<>>
    /\ ret = NoRet
    /\ lastCall = NoCall
    /\ firstRet = [c \in Calls |-> NoRet]
    /\ firstDesc = [c \in Calls |-> NoRet]
    /\ fatal = FALSE
    /\ MemIdle
    /\ current = 0
    /\ elsize \in 1..MaxElsize
    /\ grown = NoGrowth
    /\ proc = NoProc

\* The bytes of the caller's table: none when there is no table.
TableBytes == IF handle = NULL THEN <<>> ELSE Bytes(Now(<<>>, <<0, FALSE>>), handle)

\* amtable_alloc(&table, &current, elsize, count, bump, init_func)
AmtableAlloc(c, count, bump, init, ao, lc) ==
    /\ ~fatal
    /\ \E m \in {debug_amtable_alloc(Now(ao, lc), File(c), Line(c), handle,
                                     current, elsize, count, bump, init)} :
          /\ Left(m)
          /\ handle' = IF m.fatal THEN handle ELSE m.res.table
          /\ current' = IF m.fatal THEN current ELSE m.res.current
          /\ grown' = IF count >= current /\ ~m.fatal
                      THEN [count |-> count, bump |-> bump]
                      ELSE grown
    /\ op' = [name |-> "amtable_alloc", old |-> handle, cur |-> current,
              count |-> count, bump |-> bump, init |-> init,
              before |-> TableBytes]
    /\ UNCHANGED <<elsize, proc>>

\* The caller stores elements 0 .. n-1 of its table: byte k gets the value k.
TableFill(n) ==
    /\ ~fatal
    /\ handle # NULL
    /\ n <= current
    /\ heap' = [heap EXCEPT ![handle].str =
                   [k \in 1..heap[handle].size |->
                       IF k <= n * elsize THEN k ELSE TableBytes[k]]]
    /\ events' = <<>>
    /\ op' = [name |-> "fill"]
    /\ UNCHANGED <<locVars, fatal, result, handle, call, ub, extVars>>

\* amtable_free(&table, &current)
AmtableFree ==
    /\ ~fatal
    /\ \E m \in {debug_amtable_free(Now(<<>>, <<0, FALSE>>), handle, current)} :
          /\ Left(m)
          /\ handle' = m.res.table
          /\ current' = m.res.current
    /\ op' = [name |-> "amtable_free"]
    /\ grown' = NoGrowth
    /\ UNCHANGED <<elsize, proc>>

\* The outcomes of the malloc of a call that asks for count elements: none
\* when the table has room; else a failure, or the first buffer not in use.
TableAddrChoices(count) ==
    IF count < current THEN {<<>>}
    ELSE {<<NULL>>} \cup
         {<<a>> : a \in {b \in Addrs : ~heap[b].live /\ \A d \in 1..(b - 1) : heap[d].live}}

NextTable ==
    \/ \E count \in 0..MaxCount, bump \in 1..MaxBump, init \in BOOLEAN :
          \E ao \in TableAddrChoices(count), lc \in LocChoices(Site) :
             AmtableAlloc(Site, count, bump, init, ao, lc)
    \/ \E n \in 1..(MaxCount + MaxBump) : TableFill(n)
    \/ AmtableFree

SpecTable == InitTable /\ [][NextTable]_vars

(***************************************************************************)
(* safe_env.  The array it returns is a buffer whose contents are the      *)
(* pointers stored in it, the NULL that ends the list included.            *)
(***************************************************************************)

\* sizeof(char *)
SIZEOF_PTR == 8

\* safe_env_list, lines 422-432, without the NULL that ends it.
safe_env_list(p) ==
    << <<"T", "Z">> >>
    \o (IF p.cygwin THEN << <<"S", "Y", "S", "T", "E", "M", "R", "O", "O", "T">> >> ELSE <<>>)
    \o (IF p.needPath THEN << <<"P", "A", "T", "H">> >> ELSE <<>>)
    \o << <<"D", "I", "S", "P", "L", "A", "Y">> >>

\* safe_env_list + SAFE_ENV_CNT - 1, line 441: the NULL at the end of the
\* static list, an empty environment.
StaticEnd == Lit(<<NULL>>)

\* *(q + k) = v
PtrWrite(m, q, k, v) ==
    [m EXCEPT !.heap[q].str = IF k < Len(m.heap[q].str)
                              THEN [m.heap[q].str EXCEPT ![k + 1] = v]
                              ELSE Append(m.heap[q].str, v),
              !.ub = m.ub \/ ~m.heap[q].live \/ k > Len(m.heap[q].str)
                          \/ (k + 1) * SIZEOF_PTR > m.heap[q].size,
              !.ev = Append(m.ev, [e |-> "store", a |-> q, n |-> k])]

\* getenv(name): the value of the first entry of environ that is name, "="
\* and a value; a null pointer when there is none.
getenv(environ, name) ==
    LET is(i) == /\ Len(environ[i]) > Len(name)
                 /\ SubSeq(environ[i], 1, Len(name)) = name
                 /\ environ[i][Len(name) + 1] = "="
        at == {i \in 1..Len(environ) : is(i)}
    IN IF at = {} THEN NullStr
       ELSE LET i == CHOOSE i \in at : \A j \in at : i <= j
            IN Lit(SubSeq(environ[i], Len(name) + 2, Len(environ[i])))

\* Mutant of Copied: only the entries of LANG are left out.
CopiedButLang(entry) == ~strnEq(<<"L", "A", "N", "G", "=">>, entry, 5)

\* The condition of lines 459-460: the entry is copied.
Copied(entry) ==
    /\ ~strnEq(<<"L", "A", "N", "G", "=">>, entry, 5)
    /\ ~strnEq(<<"L", "C", "_">>, entry, 3)

\* __FILE__ where stralloc is called in safe_env
ThisFile == <<"a", "l", "l", "o", "c", ".", "c">>

\* The loop of lines 458-464 from entry i on, p at q + k; stralloc is
\* debug_stralloc(__FILE__, __LINE__, ...), and does not return when it
\* ends in errordump.
RECURSIVE CopyEnviron(_, _, _, _, _)
CopyEnviron(m, environ, i, q, k) ==
    IF i > Len(environ) THEN PtrWrite(m, q, k, NULL)
    ELSE IF Copied(environ[i])
    THEN Then(debug_stralloc(m, ThisFile, 461, Lit(environ[i])), LAMBDA m1 :
         IF m1.fatal THEN m1
         ELSE Then(PtrWrite(m1, q, k, m1.res), LAMBDA m2 :
              CopyEnviron(m2, environ, i + 1, q, k + 1)))
    ELSE CopyEnviron(m, environ, i + 1, q, k)

\* The loop of lines 472-487 from the name list[i] on, q at array + k.
RECURSIVE CopyListed(_, _, _, _, _, _)
CopyListed(m, environ, list, i, array, k) ==
    IF i > Len(list) THEN PtrWrite(m, array, k, NULL)
    ELSE Then(getenv(environ, list[i]), LAMBDA v :
         IF v = NullStr THEN CopyListed(m, environ, list, i + 1, array, k)
         ELSE Then(Malloc(m, Len(list[i]) + 1 + Len(v.lit) + 1), LAMBDA m1 :
              IF m1.res = NULL THEN PtrWrite(m1, array, k, NULL)
              ELSE Then(PtrWrite(m1, array, k, m1.res), LAMBDA m2 :
                   Then(WriteBuf(m2, m1.res, list[i] \o <<"=">> \o v.lit), LAMBDA m3 :
                   CopyListed(m3, environ, list, i + 1, array, k + 1)))))

\* safe_env(), lines 419-490, in the process p
safe_env(m, p) ==
    IF p.uid = p.euid /\ p.gid = p.egid
    THEN Then(Malloc(m, (1 + Len(p.environ)) * SIZEOF_PTR), LAMBDA m1 :
         IF m1.res = NULL THEN Return(m1, StaticEnd)
         ELSE Then(CopyEnviron(m1, p.environ, 1, m1.res, 0), LAMBDA m2 :
              IF m2.fatal THEN m2 ELSE Return(m2, Ptr(m1.res))))
    ELSE Then(Malloc(m, (Len(safe_env_list(p)) + 1) * SIZEOF_PTR), LAMBDA m1 :
         IF m1.res = NULL THEN Return(m1, StaticEnd)
         ELSE Then(CopyListed(m1, p.environ, safe_env_list(p), 1, m1.res, 0), LAMBDA m2 :
              Return(m2, Ptr(m1.res))))

MaxEnv == 2

\* The user and group ids of a process.
Ids == {0, 1}

\* The entries an environment is made of.
EnvEntries ==
    { <<"T", "Z", "=", "U">>,
      <<"T", "Z", "=">>,
      <<"D", "I", "S", "P", "L", "A", "Y", "=", ":", "0">>,
      <<"P", "A", "T", "H", "=", "/">>,
      <<"S", "Y", "S", "T", "E", "M", "R", "O", "O", "T", "=", "C">>,
      <<"L", "A", "N", "G", "=", "C">>,
      <<"L", "C", "_", "A", "L", "L", "=", "C">>,
      <<"L", "A", "N", "G", "U", "A", "G", "E", "=", "e">>,
      <<"L", "C", "=", "x">>,
      <<"A", "=", "1">> }

\* The buffers of the process that calls safe_env.
EnvAddrs == 1..(MaxEnv + 1)

InitEnv ==
    /\ root = <<>>
    /\ ret = NoRet
    /\ lastCall = NoCall
    /\ firstRet = [c \in Calls |-> NoRet]
    /\ firstDesc = [c \in Calls |-> NoRet]
    /\ fatal = FALSE
    /\ heap = [a \in EnvAddrs |-> NoBuf]
    /\ events = <<>>
    /\ result = NULL
    /\ op = NoOp
    /\ handle = NULL
    /\ call = NoArgs
    /\ ub = FALSE
    /\ current = 0
    /\ elsize = 1
    /\ grown = NoGrowth
    /\ \E uid, euid, gid, egid \in Ids, cygwin, needPath \in BOOLEAN,
          environ \in ArgLists(EnvEntries, MaxEnv) :
          proc = [uid |-> uid, euid |-> euid, gid |-> gid, egid |-> egid,
                  cygwin |-> cygwin, needPath |-> needPath, environ |-> environ]

\* The coming malloc calls, the i-th failing when ok[i] is false: those that
\* succeed return the buffers 1, 2, ... in turn.
EnvAddrChoices ==
    { [i \in 1..Len(ok) |->
          IF ok[i] THEN 1 + Cardinality({j \in 1..(i - 1) : ok[j]}) ELSE NULL] :
      ok \in ArgLists(BOOLEAN, MaxEnv + 1) }

SafeEnv(ao, lc) ==
    /\ ~fatal
    /\ op = NoOp
    /\ \E m \in {safe_env(Now(ao, lc), proc)} : Left(m)
    /\ op' = [name |-> "safe_env"]
    /\ UNCHANGED <<handle, extVars>>

NextEnv ==
    \E ao \in EnvAddrChoices, lc \in {<<0, FALSE>>, <<1, FALSE>>, <<1, TRUE>>} :
       SafeEnv(ao, lc)

SpecEnv == InitEnv /\ [][NextEnv]_vars

(***************************************************************************)
(* Properties of the registry                                              *)
(***************************************************************************)

NoDuplicates(rt) ==
    \A i, j \in 1..Len(rt) : i # j => rt[i].str # rt[j].str /\ rt[i].node # rt[j].node

Entries(rt) == {rt[i] : i \in 1..Len(rt)}

\* The list rt without the entry e, the order of the others kept.
Without(rt, e) == SelectSeq(rt, LAMBDA x : x # e)

\* C9: the list never holds two entries with the same location string; a
\* call that returns a list entry (a hit or a successful insert) leaves that
\* entry at the front and the other entries in their order; a hit at the
\* front changes nothing; and when the call before returned another entry,
\* that one is now second (A, B, A leaves A before B).  The registry's own
\* allocations may fail at any call.
C9_ListInvariant ==
    [][ /\ NoDuplicates(root')
        /\ ret'.node # NULL =>
              /\ root'[1] = ret'
              /\ Tail(root') = Without(root, ret')
              /\ (Len(root) > 0 /\ root[1] = ret') => root' = root
              /\ (ret.node # NULL /\ ret # NoRet /\ ret # ret') => root'[2] = ret
      ]_vars

\* C9 witness: a lookup hit an entry that was not at the front and moved it
\* there (the entry at the front is older than the one behind it).
C9_Witness ==
    /\ Len(root) = 2
    /\ ret = root[1]
    /\ root[1].node = 1
    /\ root[2].node = 2

\* C10 as stated: every call with a given (file, line) returns what the
\* first call with that (file, line) returned, by content and by identity.
C10_Original ==
    lastCall # NoCall => ret = firstRet[lastCall]

\* C10 amended: once a call with a given (file, line) has returned a list
\* entry, every later call with the same (file, line) returns that same
\* entry, with the same content, and does not lengthen the list; the
\* content of a returned entry is "<basename>@<line>" cut to the 255
\* characters of the loc buffer; entries are never removed or changed; and a
\* call that returns "??" leaves the list as it was.
C10_StableOnceInterned ==
    [][ LET c == IF lastCall' = NoCall THEN 1 ELSE lastCall'
        IN /\ Entries(root) \subseteq Entries(root')
           /\ ret'.node # NULL =>
                 /\ ret'.str = LocString(CallArgs[c][1], CallArgs[c][2])
                 /\ ret' \in Entries(root')
           /\ firstDesc[c] # NoRet =>
                 /\ ret' = firstDesc[c]
                 /\ Len(root') = Len(root)
           /\ ret'.node = NULL => ret' = Sentinel /\ root' = root
      ]_vars

\* C10 witness: the first call with this (file, line) returned "??", a later
\* one inserted the entry, another location was inserted after it, and the
\* last call found the entry again and moved it to the front.
C10_Witness ==
    /\ lastCall # NoCall
    /\ firstRet[lastCall] = Sentinel
    /\ firstDesc[lastCall] = ret
    /\ Len(root) >= 2
    /\ root[1] = ret
    /\ root[1].node < root[2].node

(***************************************************************************)
(* Properties of debug_alloc and of the operations that replace a buffer   *)
(***************************************************************************)

\* The places in the last operation's events of kind e at address a.
EventsAt(e, a) == {i \in 1..Len(events) : events[i].e = e /\ events[i].a = a}

\* The places of the malloc calls of the last operation.
Mallocs == {i \in 1..Len(events) : events[i].e = "malloc"}

\* The places of the free calls of the last operation.
Frees == {i \in 1..Len(events) : events[i].e = "free"}

\* C1: debug_alloc(size) asks malloc once, for max(size, 1) bytes; when
\* malloc returns NULL errordump is called and nothing runs after it;
\* otherwise a live buffer of that many bytes is returned, never NULL,
\* whatever becomes of the registry's own allocations.
C1_AllocTotal ==
    /\ [](op.name = "alloc" =>
            /\ Cardinality(Mallocs) = 1
            /\ \A i \in Mallocs :
                  /\ events[i].n = Max(op.size, 1)
                  /\ fatal <=> events[i].a = NULL
                  /\ fatal => events[Len(events)].e = "errordump"
                  /\ ~fatal => /\ result = events[i].a
                               /\ result # NULL
                               /\ heap[result].live
                               /\ heap[result].size = Max(op.size, 1)
            /\ ~ub)
    /\ [][fatal => UNCHANGED vars]_vars

\* C1 witness: a request of no bytes returned a buffer of one byte, while
\* the registry could allocate nothing, at the entry and at the exit.
C1_Witness ==
    /\ op.name = "alloc"
    /\ op.size = 0
    /\ ~fatal
    /\ result # NULL
    /\ heap[result].size = 1
    /\ root = <<>>

ReplaceOps == {"newalloc", "newstralloc", "newvstralloc", "newvstrallocf", "vstrextend"}

ConcatOps == {"vstralloc", "newvstralloc", "vstrextend"}

\* How many strings of argp are not empty.
NonEmpty(argp) == Cardinality({i \in 1..Len(argp) : argp[i] # <<>>})

\* The message of the errordump that ended the last operation.
FatalMsg == events[Len(events)].msg

\* The text of all the strings of the call, in the order given.
AllText == Concat(<<call.first>> \o call.argp)

\* C2: for a first string that is not null and additional strings within
\* the bound of 32 arguments, debug_vstralloc ends in errordump only when
\* malloc fails, and otherwise returns a new buffer of exactly the total
\* length plus one bytes holding all the strings in the order given; empty
\* strings, the first one too, add nothing and drop nothing after them.
C2_ConcatCorrect ==
    (op.name = "vstralloc" /\ call.first # NullStr
        /\ 1 + Len(call.argp) <= MAX_VSTRALLOC_ARGS) =>
        /\ ~ub
        /\ fatal => \E i \in Mallocs : events[i].a = NULL
        /\ ~fatal =>
              /\ result # NULL
              /\ result # handle
              /\ heap[result].live
              /\ heap[result].init
              /\ heap[result].str = AllText
              /\ heap[result].size = Len(AllText) + 1
              /\ EventsAt("malloc", result) # {}
              /\ Frees = {}

\* C2 witness: concat("ab", "", "ef") returned "abef".
C2_Witness ==
    /\ op.name = "vstralloc"
    /\ ~fatal
    /\ call = [first |-> <<"a", "b">>, argp |-> << <<>>, <<"e", "f">> >>]
    /\ heap[result].str = <<"a", "b", "e", "f">>

Grew == op.name = "amtable_alloc" /\ op.count >= op.cur /\ ~fatal

\* The smallest multiple of bump that is at least n.
MultipleFrom(n, bump) ==
    CHOOSE k \in n..(n + bump) :
        /\ k % bump = 0
        /\ \A j \in n..(k - 1) : j % bump # 0

\* C5 as stated: when the table grows, its new capacity is the smallest
\* multiple of bump that is at least the count asked for.
C5_Original == Grew => current = MultipleFrom(op.count, op.bump)

\* C5 amended: the table grows exactly when the count asked for is at least
\* its capacity, and its new capacity is then the smallest multiple of bump
\* that is greater than the count asked for, (count / bump + 1) * bump: the
\* element at index count has room.  Until the table is released its
\* capacity is that of the last request that made it grow.
C5_NextMultiple ==
    /\ Grew => /\ current = MultipleFrom(op.count + 1, op.bump)
               /\ current > op.count
               /\ grown = [count |-> op.count, bump |-> op.bump]
    /\ (op.name = "amtable_alloc" /\ op.count < op.cur) => current = op.cur
    /\ grown # NoGrowth => current = MultipleFrom(grown.count + 1, grown.bump)

\* C5 witness: a table with room for 2 elements was asked for 2 with bump 2
\* and has grown to 4.
C5_Witness ==
    /\ Grew
    /\ op.cur = 2
    /\ op.count = 2
    /\ op.bump = 2
    /\ current = 4

\* The indices of the elements init_func was called on, in the order of
\* the calls.
InitCalls ==
    LET I == {i \in 1..Len(events) : events[i].e = "init"}
        ith(k) == CHOOSE i \in I : Cardinality({j \in I : j < i}) = k - 1
    IN [k \in 1..Cardinality(I) |-> events[ith(k)].n]

\* The bytes of the table when its new part had been zeroed.
Zeroed == events[CHOOSE i \in 1..Len(events) : events[i].e = "memset"].snap

\* C6: when amtable_alloc grows a table from capacity c to c', the bytes of
\* the elements below c are what they were, at the same offsets, and the
\* elements c .. c'-1 are zero before init_func runs; init_func is called
\* once on each of the elements c .. c'-1 and on no other; the old table is
\* released once.  Called with a count below the capacity, amtable_alloc
\* changes neither the table pointer, nor the capacity, nor a byte, and
\* allocates and releases nothing.  The capacity never decreases in a call
\* of amtable_alloc.
C6_GrowthKeepsData ==
    /\ [](Grew =>
            /\ ~ub
            /\ handle = result.table
            /\ handle # op.old
            /\ heap[handle].live
            /\ heap[handle].size = current * elsize
            /\ Cardinality(Mallocs) = 1
            /\ Len(Zeroed) = current * elsize
            /\ SubSeq(Zeroed, 1, op.cur * elsize) = op.before
            /\ \A k \in (op.cur * elsize + 1)..(current * elsize) : Zeroed[k] = 0
            /\ SubSeq(TableBytes, 1, op.cur * elsize) = op.before
            /\ InitCalls = IF op.init
                           THEN [k \in 1..(current - op.cur) |-> op.cur + k - 1]
                           ELSE <<>>
            /\ \A k \in (op.cur * elsize + 1)..(current * elsize) :
                  TableBytes[k] = IF op.init THEN InitByte ELSE 0
            /\ IF op.old = NULL THEN Frees = {}
               ELSE Cardinality(EventsAt("free", op.old)) = 1 /\ Cardinality(Frees) = 1)
    /\ [][(op'.name = "amtable_alloc" /\ op'.count < current) =>
             /\ UNCHANGED <<heap, handle, current>>
             /\ events' = <<>>
             /\ result' = [table |-> handle, current |-> current]]_vars
    /\ [][op'.name = "amtable_alloc" => current' >= current]_vars

\* C6 witness: a table of 2 elements of 2 bytes the caller had stored has
\* grown to 4 elements, the first 2 as stored and the others zero.
C6_Witness ==
    /\ Grew
    /\ op.cur = 2
    /\ current = 4
    /\ elsize = 2
    /\ ~op.init
    /\ TableBytes = <<1, 2, 3, 4, 0, 0, 0, 0>>

(***************************************************************************)
(* Properties of safe_env                                                  *)
(***************************************************************************)

\* The name of an entry "NAME=VALUE", and its value.
NameOf(entry) ==
    SubSeq(entry, 1, (CHOOSE i \in 1..Len(entry) :
                         entry[i] = "=" /\ \A j \in 1..(i - 1) : entry[j] # "=") - 1)
ValueOf(entry) == SubSeq(entry, Len(NameOf(entry)) + 2, Len(entry))

\* The entry is of a locale variable: LANG, or a name that starts with LC_.
IsLocale(entry) ==
    \/ NameOf(entry) = <<"L", "A", "N", "G">>
    \/ Len(NameOf(entry)) >= 3 /\ SubSeq(NameOf(entry), 1, 3) = <<"L", "C", "_">>

NotLocale(entry) == ~IsLocale(entry)

\* The entry "NAME=VALUE" of each of the names that is set in environ, in
\* the order of the names; the value is that of the first entry of the name.
RECURSIVE Listed(_, _)
Listed(names, environ) ==
    IF names = <<>> THEN <<>>
    ELSE LET at == {i \in 1..Len(environ) : NameOf(environ[i]) = Head(names)}
         IN (IF at = {} THEN <<>>
             ELSE << Head(names) \o <<"=">>
                     \o ValueOf(environ[CHOOSE i \in at : \A j \in at : i <= j]) >>)
            \o Listed(Tail(names), environ)

\* The pointers of the array safe_env returned.
EnvArray == IF IsPtr(result) THEN heap[result.addr].str ELSE result.lit

\* The array ends with NULL, and the pointers before it are of different
\* buffers that hold strings.
ValidEnv ==
    /\ IsPtr(result) => heap[result.addr].live
    /\ Len(EnvArray) >= 1
    /\ EnvArray[Len(EnvArray)] = NULL
    /\ \A i \in 1..(Len(EnvArray) - 1) :
          /\ EnvArray[i] # NULL
          /\ heap[EnvArray[i]].live
          /\ heap[EnvArray[i]].init
          /\ \A j \in 1..(Len(EnvArray) - 1) : EnvArray[i] = EnvArray[j] => i = j

\* The strings of the environment safe_env returned.
EnvStrings == [i \in 1..(Len(EnvArray) - 1) |-> heap[EnvArray[i]].str]

Unprivileged == proc.uid = proc.euid /\ proc.gid = proc.egid

\* C7: when no malloc fails, safe_env returns an array it allocated, ended
\* by NULL, of new strings.  With real and effective ids equal these are
\* the entries of environ, in their order, but those of LANG and of the
\* names that start with LC_; otherwise they are "NAME=VALUE" for the names
\* of safe_env_list that are set, in the order of that list, and nothing
\* else.
C7_Filtering ==
    (op.name = "safe_env" /\ \A i \in Mallocs : events[i].a # NULL) =>
        /\ ~fatal
        /\ ~ub
        /\ IsPtr(result)
        /\ ValidEnv
        /\ Frees = {}
        /\ Unprivileged => EnvStrings = SelectSeq(proc.environ, NotLocale)
        /\ ~Unprivileged =>
              /\ EnvStrings = Listed(safe_env_list(proc), proc.environ)
              /\ \A i \in 1..Len(EnvStrings) :
                    \E k \in 1..Len(safe_env_list(proc)) :
                        NameOf(EnvStrings[i]) = safe_env_list(proc)[k]

\* C7 witness: the unprivileged process with LC_ALL=C and LANGUAGE=e got
\* LANGUAGE=e alone.
C7_Witness ==
    /\ op.name = "safe_env"
    /\ Unprivileged
    /\ proc.environ = << <<"L", "C", "_", "A", "L", "L", "=", "C">>, <<"L", "A", "N", "G", "U", "A", "G", "E", "=", "e">> >>
    /\ ~fatal
    /\ IsPtr(result)
    /\ EnvStrings = << <<"L", "A", "N", "G", "U", "A", "G", "E", "=", "e">> >>

\* C8 as stated: whichever of its allocations fail, safe_env returns a
\* valid environment and does not end in errordump.
C8_NeverFails == op.name = "safe_env" => ~fatal /\ ~ub /\ ValidEnv

\* The failing case of C8: in the unprivileged process the array was
\* allocated, malloc failed for the copy of an entry, and stralloc ended the
\* process in errordump.
C8_Witness ==
    /\ op.name = "safe_env"
    /\ Unprivileged
    /\ proc.environ = << <<"A", "=", "1">> >>
    /\ fatal
    /\ events[Len(events)].e = "errordump"
    /\ \E i \in Mallocs : events[i].a # NULL

====
